---------------------------- MODULE Spec2Model ----------------------------
(***************************************************************************)
(* State-machine model of samples/src/c/unwrap_loops.c: the three flattened *)
(* sample functions unwrap_loops, unwrap_loops_2 and unwrap_loops_3.  One   *)
(* step of the model is one statement of the source; a program location is  *)
(* named after the source line of its statement ("L24" is line 24, "L15inc" *)
(* is the increment clause of the for statement on line 15).                *)
(***************************************************************************)
EXTENDS Integers, Sequences, FiniteSets, TLC

(***************************************************************************)
(* Bounds of the model.                                                     *)
(***************************************************************************)
\* unk_1802CCC58 is called at most this many times in one invocation
MaxBackoff == 36
\* requested sizes n8 are drawn from 0..MaxReq (and LargeVals)
MaxReq == 11
\* stored sizes *(a2+0x14) are drawn from 0..MaxFld (and LargeVals)
MaxFld == 11
\* element counts a2 of unwrap_loops_3 are drawn from 0..MaxCount
MaxCount == 3
\* unwrap_loops_3 is followed for at most MaxElemCalls calls of
\* sub_180221640: a loop that a store has put out of step may never end
MaxElemCalls == 8
\* width in bits given to int, unsigned int and _DWORD.  The target's width
\* is 32; the model scales it down, 2^32 being out of the range of TLC's
\* integers, and keeps every operation modulo 2^Width.
Width == 16
\* threads running unwrap_loops against one g_mutex.SpinCount: 1..MaxThreads
MaxThreads == 2
\* width in bits given to int where the counter v2 is followed until it
\* wraps: the 2^(NarrowWidth-1)-th increment takes it from the largest int to
\* the smallest
NarrowWidth == 7

(***************************************************************************)
(* Program constants.                                                       *)
(***************************************************************************)
\* 0x20 in `v2++ >= 0x20`
SpinThreshold == 32
\* 8 in `v6 = 8`
FloorSize == 8
\* 9 in `v6 < 9`
FloorTest == 9
\* 6 in `v10 << 6`
ElemShift == 6
\* the value unwrap_loops_3 returns
Ret3 == 4

Functions == {"unwrap_loops", "unwrap_loops_2", "unwrap_loops_3"}

\* values g_mutex.SpinCount takes: 0 is free, nonzero is held
SpinVals == {0, 1}
\* unwrap_loops_3: the objects HIDWORD(x) may name for an int x: the int
\* itself, or the dword after it
HiForms == {"self", "next"}
\* values at the edges of the signed and the unsigned range
LargeVals == {2^(Width - 1) - 2, 2^(Width - 1) - 1, 2^(Width - 1), 2^Width - 1}

(***************************************************************************)
(* Fixed-width integer arithmetic.  Signed overflow wraps, as the add and   *)
(* inc instructions the samples were lifted from do.                        *)
(***************************************************************************)
\* the value of x as a wd-bit unsigned integer
ToUnsigned(x, wd) == x % (2^wd)

\* the value of x as a wd-bit two's complement signed integer
ToSigned(x, wd) ==
    LET u == x % (2^wd)
    IN  IF u >= 2^(wd - 1) THEN u - 2^wd ELSE u

\* x >> 1 on a signed int: arithmetic shift, rounding towards minus infinity
Sar1(x) == x \div 2

\* x << n on a wd-bit int
Shl(x, n, wd) == ToSigned(x * (2^n), wd)


(***************************************************************************)
(* Control-flow graphs of the three functions, one node per statement.      *)
(***************************************************************************)
Entry(f) ==
    CASE f = "unwrap_loops"   -> "L15"
      [] f = "unwrap_loops_2" -> "L51"
      [] f = "unwrap_loops_3" -> "L91"

\* unwrap_loops, lines 15-41
Edges1 ==
    { <<"L15", "L19">>,      \* for-init i = 0, into while (1)
      <<"L19", "L20">>,      \* result = i; if (i)
      <<"L20", "L31">>,      \* i != 0: break out of while (1)
      <<"L20", "L23">>,      \* i == 0
      <<"L23", "L24">>,      \* v2 = 0; first compare-and-exchange
      <<"L24", "L38">>,      \* returned 0: goto LABEL_x379
      <<"L24", "L28">>,      \* returned nonzero: fall into LABEL_x2B0
      <<"L28", "L19">>,      \* i = 1; end of while body
      <<"L31", "L41">>,      \* i != 1: break out of for
      <<"L31", "L34">>,      \* i == 1
      <<"L34", "L35">>,      \* unk_1802CCC58(...); second compare-and-exchange
      <<"L35", "L28">>,      \* returned nonzero: goto LABEL_x2B0
      <<"L35", "L38">>,      \* returned 0: fall into LABEL_x379
      <<"L38", "L15inc">>,   \* LABEL_x379:; end of for body
      <<"L15inc", "L19">>,   \* i = 2, into while (1)
      <<"L41", "done">> }    \* return result

\* unwrap_loops_2, lines 51-79
Edges2 ==
    { <<"L51", "L55">>,      \* for-init i = 0
      <<"L55", "L56">>,      \* result = i; if (i)
      <<"L56", "L66">>,      \* i != 0: break out of while (1)
      <<"L56", "L59">>,      \* i == 0
      <<"L59", "L60">>,      \* v9 = *(a2 + 0x14); if (v9 >= n8)
      <<"L60", "L61">>,
      <<"L60", "L63">>,
      <<"L61", "L55">>,      \* i = 1; end of while body
      <<"L63", "L55">>,      \* i = 2; end of while body
      <<"L66", "L79">>,      \* i != 2: break out of for
      <<"L66", "L69">>,      \* i == 2
      <<"L69", "L70">>,      \* v6 = v9 + (v9 >> 1); if (v6 <= n8)
      <<"L70", "L71">>,
      <<"L70", "L73">>,
      <<"L71", "L73">>,      \* v6 = n8; if (v6 < 9)
      <<"L73", "L74">>,
      <<"L73", "L76">>,
      <<"L74", "L76">>,      \* v6 = 8; call
      <<"L76", "L51inc">>,   \* sub_1800D3BF0(...); end of for body
      <<"L51inc", "L55">>,   \* i = 1, into while (1)
      <<"L79", "done">> }    \* return result

\* unwrap_loops_3, lines 91-119
Edges3 ==
    { <<"L91", "L92">>,      \* v5 = a2; if (a2)
      <<"L92", "L94">>,
      <<"L92", "L119">>,     \* a2 == 0
      <<"L94", "L95">>,      \* v10 = 0; for-init HIDWORD(v7) = 2
      <<"L95", "L97">>,
      <<"L97", "L98">>,      \* v9 = v10; first call
      <<"L98", "L105">>,     \* HIDWORD(v8) = 3
      <<"L105", "L106">>,    \* second call
      <<"L106", "L113">>,    \* ++v10
      <<"L113", "L114">>,    \* if (v9 + 1 == v5)
      <<"L114", "L119">>,    \* break
      <<"L114", "L95inc">>,  \* end of for body
      <<"L95inc", "L97">>,   \* for-increment HIDWORD(v7) = 2
      <<"L119", "done">> }   \* return 4

Edges(f) ==
    CASE f = "unwrap_loops"   -> Edges1
      [] f = "unwrap_loops_2" -> Edges2
      [] f = "unwrap_loops_3" -> Edges3

Nodes(f) == {e[1] : e \in Edges(f)} \cup {e[2] : e \in Edges(f)}

(***************************************************************************)
(* Dominance and loop regions (spec 4.2, 4.3).                              *)
(***************************************************************************)
\* the nodes reachable from the set S along edges of E without entering a
\* node of `avoid`
RECURSIVE ReachFrom(_, _, _)
ReachFrom(E, S, avoid) ==
    LET nxt == S \cup {e[2] : e \in {x \in E : x[1] \in S /\ x[2] \notin avoid}}
    IN  IF nxt = S THEN S ELSE ReachFrom(E, nxt, avoid)

Reachable(f) == ReachFrom(Edges(f), {Entry(f)}, {})

\* d dominates n: every path from the entry to n passes through d
Dominates(f, d, n) ==
    \/ d = n
    \/ n \notin ReachFrom(Edges(f), {Entry(f)} \ {d}, {d})

\* back edge: an edge whose target dominates its source
BackEdges(f) == {e \in Edges(f) : Dominates(f, e[2], e[1])}

\* one loop region per distinct back-edge target
Headers(f) == {e[2] : e \in BackEdges(f)}

BackEdgesInto(f, h) == {e \in BackEdges(f) : e[2] = h}

InDegree(f, n) == Cardinality({e \in Edges(f) : e[2] = n})

\* the nodes that reach a node of S along edges of E without passing
\* through h
RECURSIVE ReachBack(_, _, _)
ReachBack(E, S, h) ==
    LET nxt == S \cup {e[1] : e \in {x \in E : x[2] \in S /\ x[2] # h}}
    IN  IF nxt = S THEN S ELSE ReachBack(E, nxt, h)

\* natural loop of header h: h and every node that reaches a latch of h
\* without passing through h
LoopBody(f, h) ==
    ReachBack(Edges(f), {h} \cup {e[1] : e \in BackEdgesInto(f, h)}, h)

\* edges leaving the loop region
ExitEdges(f, h) ==
    {e \in Edges(f) : e[1] \in LoopBody(f, h) /\ e[2] \notin LoopBody(f, h)}

\* a graph is reducible when removing its back edges leaves no cycle
Reducible(f) ==
    LET fwd == Edges(f) \ BackEdges(f)
    IN  \A n \in Nodes(f) :
            n \notin ReachFrom(fwd, {e[2] : e \in {x \in fwd : x[1] = n}}, {})

\* the analysis of the three graphs, computed once
Analysis ==
    [f \in Functions |->
        [headers   |-> Headers(f),
         backEdges |-> BackEdges(f),
         inDegree  |-> [n \in Nodes(f) |-> InDegree(f, n)],
         body      |-> [h \in Headers(f) |-> LoopBody(f, h)],
         exits     |-> [h \in Headers(f) |-> ExitEdges(f, h)],
         dominated |-> [h \in Headers(f) |->
                           {n \in Nodes(f) : Dominates(f, h, n)}],
         reducible |-> Reducible(f)]]

(***************************************************************************)
(* The state.                                                               *)
(***************************************************************************)
VARIABLES
    fn,        \* the function being executed
    pc,        \* the statement about to be executed
    w,         \* width in bits of int, unsigned int and _DWORD
    spin,      \* g_mutex.SpinCount
    fld,       \* the _DWORD at a2 + 0x14
    n8,        \* unwrap_loops_2: parameter n8
    a2,        \* unwrap_loops_3: parameter a2
    hidword,   \* unwrap_loops_3: the object HIDWORD(x) names for an int x
    i,         \* local i (the dispatch variable)
    v2,        \* unwrap_loops: local v2
    result,    \* local result
    v9,        \* local v9
    v6,        \* unwrap_loops_2: local v6
    v5,        \* unwrap_loops_3: local v5
    v10,       \* unwrap_loops_3: local v10
    ret,       \* the value returned, once pc = "done"
    calls,     \* the external calls made so far, in order
    nload,     \* number of loads of the _DWORD at a2 + 0x14 so far
    acc,       \* how the last statement executed accessed i
    defd,      \* the locals assigned so far
    walked,    \* the control-flow edges taken so far
    thr        \* the threads running unwrap_loops concurrently, each with its
               \* own locals

vars == <<fn, pc, w, spin, fld, n8, a2, hidword, i, v2, result, v9, v6, v5, v10,
          ret, calls, nload, acc, defd, walked, thr>>

inputs == <<fn, w, n8, a2, hidword>>

(***************************************************************************)
(* External calls, as they appear in the trace.                             *)
(***************************************************************************)
\* _InterlockedCompareExchange(&g_mutex.SpinCount, Exchange, Comperand)
CasCall(exchange, comperand, old) ==
    [f |-> "_InterlockedCompareExchange",
     args |-> <<"g_mutex.SpinCount", exchange, comperand>>, r |-> old]

\* CasStore comparing without exchanging: the destination is left as it was
CasStore_NoStore(old, exchange, comperand) == old

\* the value the compare-and-exchange leaves in the destination
CasStore(old, exchange, comperand) == IF old = comperand THEN exchange ELSE old

UnkCall(b) == [f |-> "unk_1802CCC58", args |-> <<b>>, r |-> 0]

GrowCall(size) ==
    [f |-> "sub_1800D3BF0", args |-> <<6, 77, 59, size, "a2">>, r |-> 0]

\* the _QWORD at a5 + off, named by its address
QwordAt(off) == <<"a5", off>>

ElemCall(off1, c2, c3, off2, c5, last) ==
    [f |-> "sub_180221640",
     args |-> <<QwordAt(off1), c2, c3, QwordAt(off2), c5, last>>, r |-> 0]

NumCalls(name) == Cardinality({k \in 1..Len(calls) : calls[k].f = name})

(***************************************************************************)
(* Init: a call of one of the functions with arbitrary arguments.  Locals   *)
(* are not yet assigned (defd is empty).                                    *)
(***************************************************************************)
Init ==
    /\ fn \in Functions
    /\ pc = Entry(fn)
    /\ w = Width
    /\ spin \in (IF fn = "unwrap_loops" THEN SpinVals ELSE {0})
    /\ fld \in (IF fn = "unwrap_loops_2" THEN (0..MaxFld) \cup LargeVals ELSE {0})
    /\ n8 \in (IF fn = "unwrap_loops_2" THEN (0..MaxReq) \cup LargeVals ELSE {0})
    /\ a2 \in (IF fn = "unwrap_loops_3" THEN 0..MaxCount ELSE {0})
    /\ hidword \in (IF fn = "unwrap_loops_3" THEN HiForms ELSE {"self"})
    /\ i = 0 /\ v2 = 0 /\ result = 0 /\ v9 = 0 /\ v6 = 0 /\ v5 = 0 /\ v10 = 0
    /\ ret = 0
    /\ calls = << >>
    /\ nload = 0
    /\ acc = "none"
    /\ defd = {}
    /\ walked = {}
    /\ thr = << >>

\* one statement: control moves from `from` to `to`; `access` is what the
\* statement does with i
Step(from, to, access) ==
    /\ pc = from
    /\ pc' = to
    /\ acc' = access
    /\ walked' = walked \cup {<<from, to>>}
    /\ UNCHANGED <<inputs, thr>>

(***************************************************************************)
(* unwrap_loops                                                             *)
(***************************************************************************)
\* BackoffArg with the comparison off by one (`>` for `>=`)
BackoffArg_Strict(v) == IF v > SpinThreshold THEN 1 ELSE 0

\* line 34: the argument `v2 >= 0x20` (an int, 0 or 1)
BackoffArg(v) == IF v >= SpinThreshold THEN 1 ELSE 0

\* AfterFirstCas leaving the while (1) by `break` instead of `goto LABEL_x379`
AfterFirstCas_Break(old) == IF old = 0 THEN "L31" ELSE "L28"

\* line 24: `if (!CAS) goto LABEL_x379;` else fall into LABEL_x2B0
AfterFirstCas(old) == IF old = 0 THEN "L38" ELSE "L28"

\* AfterLatchCas with the test inverted (`!CAS`, as on line 24)
AfterLatchCas_Inverted(old) == IF old = 0 THEN "L28" ELSE "L38"

\* AfterLatchCas retrying the backoff at once, not through LABEL_x2B0
AfterLatchCas_Retry(old) == IF old # 0 THEN "L34" ELSE "L38"

\* line 35: `if (CAS) goto LABEL_x2B0;` else fall into LABEL_x379
AfterLatchCas(old) == IF old # 0 THEN "L28" ELSE "L38"

\* line 15: for (i = 0; ...
UL_ForInit ==
    /\ fn = "unwrap_loops"
    /\ Step("L15", "L19", "write")
    /\ i' = 0
    /\ defd' = defd \cup {"i"}
    /\ UNCHANGED <<spin, fld, v2, result, v9, v6, v5, v10, ret, calls, nload>>

\* line 19: result = i;
UL_CopyResult ==
    /\ fn = "unwrap_loops"
    /\ Step("L19", "L20", "copy")
    /\ result' = i
    /\ defd' = defd \cup {"result"}
    /\ UNCHANGED <<spin, fld, i, v2, v9, v6, v5, v10, ret, calls, nload>>

\* line 20: if (i) break;
UL_TestI ==
    /\ fn = "unwrap_loops"
    /\ Step("L20", IF i # 0 THEN "L31" ELSE "L23", "branch")
    /\ UNCHANGED <<spin, fld, i, v2, result, v9, v6, v5, v10, ret, calls, nload, defd>>

\* line 23: v2 = 0;
UL_ResetCounter ==
    /\ fn = "unwrap_loops"
    /\ Step("L23", "L24", "none")
    /\ v2' = 0
    /\ defd' = defd \cup {"v2"}
    /\ UNCHANGED <<spin, fld, i, result, v9, v6, v5, v10, ret, calls, nload>>

\* line 24: if (!_InterlockedCompareExchange(&g_mutex.SpinCount, 1, 0)) goto LABEL_x379;
UL_FirstCas ==
    /\ fn = "unwrap_loops"
    /\ Step("L24", AfterFirstCas(spin), "none")
    /\ spin' = CasStore(spin, 1, 0)
    /\ calls' = Append(calls, CasCall(1, 0, spin))
    /\ UNCHANGED <<fld, i, v2, result, v9, v6, v5, v10, ret, nload, defd>>

\* lines 27-28: LABEL_x2B0: i = 1;
UL_LabelX2B0 ==
    /\ fn = "unwrap_loops"
    /\ Step("L28", "L19", "write")
    /\ i' = 1
    /\ defd' = defd \cup {"i"}
    /\ UNCHANGED <<spin, fld, v2, result, v9, v6, v5, v10, ret, calls, nload>>

\* line 31: if (i != 1) break;
UL_TestI1 ==
    /\ fn = "unwrap_loops"
    /\ Step("L31", IF i # 1 THEN "L41" ELSE "L34", "branch")
    /\ UNCHANGED <<spin, fld, i, v2, result, v9, v6, v5, v10, ret, calls, nload, defd>>

\* line 34: unk_1802CCC58(v2++ >= 0x20);
UL_Backoff ==
    /\ fn = "unwrap_loops"
    /\ NumCalls("unk_1802CCC58") < MaxBackoff
    /\ Step("L34", "L35", "none")
    /\ calls' = Append(calls, UnkCall(BackoffArg(v2)))
    /\ v2' = ToSigned(v2 + 1, w)
    /\ UNCHANGED <<spin, fld, i, result, v9, v6, v5, v10, ret, nload, defd>>

\* line 35: if (_InterlockedCompareExchange(&g_mutex.SpinCount, 1, 0)) goto LABEL_x2B0;
UL_LatchCas ==
    /\ fn = "unwrap_loops"
    /\ Step("L35", AfterLatchCas(spin), "none")
    /\ spin' = CasStore(spin, 1, 0)
    /\ calls' = Append(calls, CasCall(1, 0, spin))
    /\ UNCHANGED <<fld, i, v2, result, v9, v6, v5, v10, ret, nload, defd>>

\* line 38: LABEL_x379:;
UL_LabelX379 ==
    /\ fn = "unwrap_loops"
    /\ Step("L38", "L15inc", "none")
    /\ UNCHANGED <<spin, fld, i, v2, result, v9, v6, v5, v10, ret, calls, nload, defd>>

\* UL_ForInc writing 1, as the for-increment of unwrap_loops_2 does
UL_ForInc_One ==
    /\ fn = "unwrap_loops"
    /\ Step("L15inc", "L19", "write")
    /\ i' = 1
    /\ defd' = defd \cup {"i"}
    /\ UNCHANGED <<spin, fld, v2, result, v9, v6, v5, v10, ret, calls, nload>>

\* UL_ForInc writing a fourth dispatch value
UL_ForInc_Three ==
    /\ fn = "unwrap_loops"
    /\ Step("L15inc", "L19", "write")
    /\ i' = 3
    /\ defd' = defd \cup {"i"}
    /\ UNCHANGED <<spin, fld, v2, result, v9, v6, v5, v10, ret, calls, nload>>

\* line 15: for (...; i = 2)
UL_ForInc ==
    /\ fn = "unwrap_loops"
    /\ Step("L15inc", "L19", "write")
    /\ i' = 2
    /\ defd' = defd \cup {"i"}
    /\ UNCHANGED <<spin, fld, v2, result, v9, v6, v5, v10, ret, calls, nload>>

\* line 41: return result;
UL_Return ==
    /\ fn = "unwrap_loops"
    /\ Step("L41", "done", "none")
    /\ ret' = result
    /\ UNCHANGED <<spin, fld, i, v2, result, v9, v6, v5, v10, calls, nload, defd>>

\* another thread stores to g_mutex.SpinCount while unwrap_loops runs
EnvSpin ==
    /\ fn = "unwrap_loops"
    /\ pc # "done"
    /\ spin' \in SpinVals \ {spin}
    /\ UNCHANGED <<pc, acc, walked, inputs, thr>>
    /\ UNCHANGED <<fld, i, v2, result, v9, v6, v5, v10, ret, calls, nload, defd>>

(***************************************************************************)
(* unwrap_loops_2                                                           *)
(***************************************************************************)
\* line 60: `v9 >= n8`, int against unsigned int: compared as unsigned
AtLeastRequested(v, n, wd) == ToUnsigned(v, wd) >= n

\* Growth doubling the size (`v9 + v9`) instead of growing it by half
Growth_Double(v, wd) == ToSigned(v + v, wd)

\* line 69: v9 + (v9 >> 1)
Growth(v, wd) == ToSigned(v + Sar1(v), wd)

\* NotAboveRequested with the comparison turned round (`>=` for `<=`)
NotAboveRequested_Reversed(v, n, wd) == ToUnsigned(v, wd) >= n

\* line 70: `v6 <= n8`, int against unsigned int: compared as unsigned
NotAboveRequested(v, n, wd) == ToUnsigned(v, wd) <= n

\* line 73: `v6 < 9`, int against int
BelowFloor(v) == v < FloorTest

\* lines 69-74: the size passed to sub_1800D3BF0 for stored size v (as read
\* into v9) and requested size n: growth, clamp to requested, clamp to floor
GrowSize(v, n, wd) ==
    LET g == Growth(v, wd)
        r == IF NotAboveRequested(g, n, wd) THEN ToSigned(n, wd) ELSE g
    IN  IF BelowFloor(r) THEN FloorSize ELSE r

\* line 51: for (i = 0; ...
U2_ForInit ==
    /\ fn = "unwrap_loops_2"
    /\ Step("L51", "L55", "write")
    /\ i' = 0
    /\ defd' = defd \cup {"i"}
    /\ UNCHANGED <<spin, fld, v2, result, v9, v6, v5, v10, ret, calls, nload>>

\* U2_CopyResult copying the wrong local (`result = v9`)
U2_CopyResult_Size ==
    /\ fn = "unwrap_loops_2"
    /\ Step("L55", "L56", "copy")
    /\ result' = v9
    /\ defd' = defd \cup {"result"}
    /\ UNCHANGED <<spin, fld, i, v2, v9, v6, v5, v10, ret, calls, nload>>

\* line 55: result = i;
U2_CopyResult ==
    /\ fn = "unwrap_loops_2"
    /\ Step("L55", "L56", "copy")
    /\ result' = i
    /\ defd' = defd \cup {"result"}
    /\ UNCHANGED <<spin, fld, i, v2, v9, v6, v5, v10, ret, calls, nload>>

\* line 56: if (i) break;
U2_TestI ==
    /\ fn = "unwrap_loops_2"
    /\ Step("L56", IF i # 0 THEN "L66" ELSE "L59", "branch")
    /\ UNCHANGED <<spin, fld, i, v2, result, v9, v6, v5, v10, ret, calls, nload, defd>>

\* line 59: v9 = *(_DWORD *)(a2 + 0x14);
U2_LoadSize ==
    /\ fn = "unwrap_loops_2"
    /\ Step("L59", "L60", "none")
    /\ v9' = ToSigned(fld, w)
    /\ nload' = nload + 1
    /\ defd' = defd \cup {"v9"}
    /\ UNCHANGED <<spin, fld, i, v2, result, v6, v5, v10, ret, calls>>

\* line 60: if (v9 >= n8)
U2_TestSize ==
    /\ fn = "unwrap_loops_2"
    /\ Step("L60", IF AtLeastRequested(v9, n8, w) THEN "L61" ELSE "L63", "none")
    /\ UNCHANGED <<spin, fld, i, v2, result, v9, v6, v5, v10, ret, calls, nload, defd>>

\* line 61: i = 1;
U2_SetI1 ==
    /\ fn = "unwrap_loops_2"
    /\ Step("L61", "L55", "write")
    /\ i' = 1
    /\ defd' = defd \cup {"i"}
    /\ UNCHANGED <<spin, fld, v2, result, v9, v6, v5, v10, ret, calls, nload>>

\* line 63: i = 2;
U2_SetI2 ==
    /\ fn = "unwrap_loops_2"
    /\ Step("L63", "L55", "write")
    /\ i' = 2
    /\ defd' = defd \cup {"i"}
    /\ UNCHANGED <<spin, fld, v2, result, v9, v6, v5, v10, ret, calls, nload>>

\* line 66: if (i != 2) break;
U2_TestI2 ==
    /\ fn = "unwrap_loops_2"
    /\ Step("L66", IF i # 2 THEN "L79" ELSE "L69", "branch")
    /\ UNCHANGED <<spin, fld, i, v2, result, v9, v6, v5, v10, ret, calls, nload, defd>>

\* line 69: v6 = v9 + (v9 >> 1);
U2_Grow ==
    /\ fn = "unwrap_loops_2"
    /\ Step("L69", "L70", "none")
    /\ v6' = Growth(v9, w)
    /\ defd' = defd \cup {"v6"}
    /\ UNCHANGED <<spin, fld, i, v2, result, v9, v5, v10, ret, calls, nload>>

\* line 70: if (v6 <= n8)
U2_TestRequested ==
    /\ fn = "unwrap_loops_2"
    /\ Step("L70", IF NotAboveRequested(v6, n8, w) THEN "L71" ELSE "L73", "none")
    /\ UNCHANGED <<spin, fld, i, v2, result, v9, v6, v5, v10, ret, calls, nload, defd>>

\* line 71: v6 = n8;
U2_ClampRequested ==
    /\ fn = "unwrap_loops_2"
    /\ Step("L71", "L73", "none")
    /\ v6' = ToSigned(n8, w)
    /\ UNCHANGED <<spin, fld, i, v2, result, v9, v5, v10, ret, calls, nload, defd>>

\* line 73: if (v6 < 9)
U2_TestFloor ==
    /\ fn = "unwrap_loops_2"
    /\ Step("L73", IF BelowFloor(v6) THEN "L74" ELSE "L76", "none")
    /\ UNCHANGED <<spin, fld, i, v2, result, v9, v6, v5, v10, ret, calls, nload, defd>>

\* line 74: v6 = 8;
U2_ClampFloor ==
    /\ fn = "unwrap_loops_2"
    /\ Step("L74", "L76", "none")
    /\ v6' = FloorSize
    /\ UNCHANGED <<spin, fld, i, v2, result, v9, v5, v10, ret, calls, nload, defd>>

\* line 76: sub_1800D3BF0(6, 0x4D, 0x3B, v6, a2);  the callee may store the
\* new size to the _DWORD at a2 + 0x14
U2_Call ==
    /\ fn = "unwrap_loops_2"
    /\ Step("L76", "L51inc", "none")
    /\ calls' = Append(calls, GrowCall(v6))
    /\ fld' \in {fld, ToUnsigned(v6, w)}
    /\ UNCHANGED <<spin, i, v2, result, v9, v6, v5, v10, ret, nload, defd>>

\* U2_ForInc sending the dispatch back to the size test (i = 0)
U2_ForInc_Retest ==
    /\ fn = "unwrap_loops_2"
    /\ Step("L51inc", "L55", "write")
    /\ i' = 0
    /\ defd' = defd \cup {"i"}
    /\ UNCHANGED <<spin, fld, v2, result, v9, v6, v5, v10, ret, calls, nload>>

\* line 51: for (...; i = 1)
U2_ForInc ==
    /\ fn = "unwrap_loops_2"
    /\ Step("L51inc", "L55", "write")
    /\ i' = 1
    /\ defd' = defd \cup {"i"}
    /\ UNCHANGED <<spin, fld, v2, result, v9, v6, v5, v10, ret, calls, nload>>

\* line 79: return result;
U2_Return ==
    /\ fn = "unwrap_loops_2"
    /\ Step("L79", "done", "none")
    /\ ret' = result
    /\ UNCHANGED <<spin, fld, i, v2, result, v9, v6, v5, v10, calls, nload, defd>>

(***************************************************************************)
(* unwrap_loops_3.  v7 and v8 are declared int and are never assigned      *)
(* directly: the only stores are HIDWORD(v7) = 2 (line 95) and             *)
(* HIDWORD(v8) = 3 (line 105), through a macro that line 1 takes from      *)
(* polyfill.h.  The source does not say which object HIDWORD(x) names for  *)
(* an int x; hidword holds it for the build at hand:                       *)
(*   "self"  the int itself: the store assigns it and the value passed on  *)
(*           is the value stored;                                           *)
(*   "next"  the dword after the int: the store is outside the int and its *)
(*           effect is undefined, and the int is passed without ever       *)
(*           having been assigned.  Each execution of such a store may     *)
(*           leave the other locals alone or put its value in one of them. *)
(***************************************************************************)
\* lines 95, 105: what a store through HIDWORD(...) outside its int changes:
\* nothing the function reads again ("other"), or one of v5, v9, v10
HiTargets == {"other", "v5", "v9", "v10"}

\* lines 95, 105: HIDWORD(...) = val, the store reaching `target`
HiStore(target, val) ==
    /\ v5'  = IF target = "v5"  THEN val ELSE v5
    /\ v9'  = IF target = "v9"  THEN val ELSE v9
    /\ v10' = IF target = "v10" THEN val ELSE v10

\* lines 95, 105: HIDWORD(...) = val in the build at hand
HiAssign(val) ==
    IF hidword = "self"
    THEN UNCHANGED <<v5, v9, v10>>
    ELSE \E target \in HiTargets : HiStore(target, val)

\* an int argument as the trace records it when the source does not fix its
\* value: the value, when it is known, or the mark of an int that is passed
\* without having been assigned (any int)
Known(val) == [known |-> TRUE, val |-> val]
Indeterminate == [known |-> FALSE, val |-> 0]

\* lines 104, 112: the value passed for an int whose only store is
\* HIDWORD(...) = val: val when the store reached the int, any int otherwise
ThroughHi(val, reached) == IF reached THEN Known(val) ELSE Indeterminate

\* lines 99-102, 107-110: a5 + (v10 << 6) + off, relative to a5
ElemOff(idx, off, wd) == Shl(idx, ElemShift, wd) + off

\* line 114: `v9 + 1 == v5`
AtLastElem(v, cnt, wd) == ToSigned(v + 1, wd) = cnt

\* line 91: v5 = a2;
U3_CopyCount ==
    /\ fn = "unwrap_loops_3"
    /\ Step("L91", "L92", "none")
    /\ v5' = ToSigned(a2, w)
    /\ defd' = defd \cup {"v5"}
    /\ UNCHANGED <<spin, fld, i, v2, result, v9, v6, v10, ret, calls, nload>>

\* line 92: if (a2)
U3_TestCount ==
    /\ fn = "unwrap_loops_3"
    /\ Step("L92", IF a2 # 0 THEN "L94" ELSE "L119", "none")
    /\ UNCHANGED <<spin, fld, i, v2, result, v9, v6, v5, v10, ret, calls, nload, defd>>

\* line 94: v10 = 0;
U3_ResetIndex ==
    /\ fn = "unwrap_loops_3"
    /\ Step("L94", "L95", "none")
    /\ v10' = 0
    /\ defd' = defd \cup {"v10"}
    /\ UNCHANGED <<spin, fld, i, v2, result, v9, v6, v5, ret, calls, nload>>

\* line 95: for (HIDWORD(v7) = 2; ...
U3_ForInit ==
    /\ fn = "unwrap_loops_3"
    /\ Step("L95", "L97", "none")
    /\ HiAssign(2)
    /\ UNCHANGED <<spin, fld, i, v2, result, v6, ret, calls, nload, defd>>

\* line 97: v9 = v10;
U3_SaveIndex ==
    /\ fn = "unwrap_loops_3"
    /\ Step("L97", "L98", "none")
    /\ v9' = v10
    /\ defd' = defd \cup {"v9"}
    /\ UNCHANGED <<spin, fld, i, v2, result, v6, v5, v10, ret, calls, nload>>

\* lines 98-104: sub_180221640(*(a5 + (v10 << 6) + 0x28), 0xA, 0x5E,
\*                             *(a5 + (v10 << 6) + 0x30), 0x45, v7);
U3_FirstCall ==
    /\ fn = "unwrap_loops_3"
    /\ Len(calls) < MaxElemCalls
    /\ Step("L98", "L105", "none")
    /\ calls' = Append(calls, ElemCall(ElemOff(v10, 40, w), 10, 94,
                                       ElemOff(v10, 48, w), 69,
                                       ThroughHi(2, hidword = "self")))
    /\ UNCHANGED <<spin, fld, i, v2, result, v9, v6, v5, v10, ret, nload, defd>>

\* line 105: HIDWORD(v8) = 3;
U3_SetHigh8 ==
    /\ fn = "unwrap_loops_3"
    /\ Step("L105", "L106", "none")
    /\ HiAssign(3)
    /\ UNCHANGED <<spin, fld, i, v2, result, v6, ret, calls, nload, defd>>

\* lines 106-112: sub_180221640(*(a5 + (v10 << 6) + 0x10), 0x62, 0x2A,
\*                              *(a5 + (v10 << 6) + 0x18), 0x19, v8);
U3_SecondCall ==
    /\ fn = "unwrap_loops_3"
    /\ Step("L106", "L113", "none")
    /\ calls' = Append(calls, ElemCall(ElemOff(v10, 16, w), 98, 42,
                                       ElemOff(v10, 24, w), 25,
                                       ThroughHi(3, hidword = "self")))
    /\ UNCHANGED <<spin, fld, i, v2, result, v9, v6, v5, v10, ret, nload, defd>>

\* line 113: ++v10;
U3_IncIndex ==
    /\ fn = "unwrap_loops_3"
    /\ Step("L113", "L114", "none")
    /\ v10' = ToSigned(v10 + 1, w)
    /\ UNCHANGED <<spin, fld, i, v2, result, v9, v6, v5, ret, calls, nload, defd>>

\* lines 114-115: if (v9 + 1 == v5) break;
U3_LatchTest ==
    /\ fn = "unwrap_loops_3"
    /\ Step("L114", IF AtLastElem(v9, v5, w) THEN "L119" ELSE "L95inc", "none")
    /\ UNCHANGED <<spin, fld, i, v2, result, v9, v6, v5, v10, ret, calls, nload, defd>>

\* line 95: for (...; HIDWORD(v7) = 2)
U3_ForInc ==
    /\ fn = "unwrap_loops_3"
    /\ Step("L95inc", "L97", "none")
    /\ HiAssign(2)
    /\ UNCHANGED <<spin, fld, i, v2, result, v6, ret, calls, nload, defd>>

\* line 119: return 4;
U3_Return ==
    /\ fn = "unwrap_loops_3"
    /\ Step("L119", "done", "none")
    /\ ret' = Ret3
    /\ UNCHANGED <<spin, fld, i, v2, result, v9, v6, v5, v10, calls, nload, defd>>

(***************************************************************************)
(* The specifications.                                                      *)
(***************************************************************************)
Next1 ==
    \/ UL_ForInit \/ UL_CopyResult \/ UL_TestI \/ UL_ResetCounter
    \/ UL_FirstCas \/ UL_LabelX2B0 \/ UL_TestI1 \/ UL_Backoff
    \/ UL_LatchCas \/ UL_LabelX379 \/ UL_ForInc \/ UL_Return

Next2 ==
    \/ U2_ForInit \/ U2_CopyResult \/ U2_TestI \/ U2_LoadSize
    \/ U2_TestSize \/ U2_SetI1 \/ U2_SetI2 \/ U2_TestI2
    \/ U2_Grow \/ U2_TestRequested \/ U2_ClampRequested \/ U2_TestFloor
    \/ U2_ClampFloor \/ U2_Call \/ U2_ForInc \/ U2_Return

Next3 ==
    \/ U3_CopyCount \/ U3_TestCount \/ U3_ResetIndex \/ U3_ForInit
    \/ U3_SaveIndex \/ U3_FirstCall \/ U3_SetHigh8 \/ U3_SecondCall
    \/ U3_IncIndex \/ U3_LatchTest \/ U3_ForInc \/ U3_Return

Next == Next1 \/ Next2 \/ Next3 \/ EnvSpin

Spec == Init /\ [][Next]_vars

\* a running invocation of unwrap_loops_2 or unwrap_loops_3 is not suspended
\* for ever: its next statement is eventually executed
FairSpec == Spec /\ WF_vars(Next2) /\ WF_vars(Next3)

\* a running invocation of unwrap_loops is not suspended for ever either
FairSpec1 == Spec /\ WF_vars(Next1)

(***************************************************************************)
(* Several threads in unwrap_loops at once, sharing g_mutex.SpinCount.     *)
(* Each thread has its own i, v2 and result.  The statements that touch    *)
(* only locals commute with the steps of the other threads, so a thread's  *)
(* step is one external call (or the return) together with the local       *)
(* statements that lead to the next one.                                    *)
(***************************************************************************)
\* no external call made yet
NoCall == [f |-> "none", args |-> << >>, r |-> 0]

\* a thread that has entered unwrap_loops and executed nothing: its locals,
\* the last external call it made, the argument of its last unk_1802CCC58
\* call (-1: none yet) and the number of its compare-and-exchange calls that
\* returned 0
NewThread ==
    [pc |-> "L15", i |-> 0, v2 |-> 0, result |-> 0, ret |-> 0,
     last |-> NoCall, arg |-> -1, wins |-> 0]

\* the statements of unwrap_loops that make no call, on the locals s of one
\* thread (lines 15, 19, 20, 23, 28, 31, 38 and the for-increment)
LocalStmt(s) ==
    CASE s.pc = "L15"    -> [s EXCEPT !.pc = "L19", !.i = 0]
      [] s.pc = "L19"    -> [s EXCEPT !.pc = "L20", !.result = s.i]
      [] s.pc = "L20"    -> [s EXCEPT !.pc = IF s.i # 0 THEN "L31" ELSE "L23"]
      [] s.pc = "L23"    -> [s EXCEPT !.pc = "L24", !.v2 = 0]
      [] s.pc = "L28"    -> [s EXCEPT !.pc = "L19", !.i = 1]
      [] s.pc = "L31"    -> [s EXCEPT !.pc = IF s.i # 1 THEN "L41" ELSE "L34"]
      [] s.pc = "L38"    -> [s EXCEPT !.pc = "L15inc"]
      [] s.pc = "L15inc" -> [s EXCEPT !.pc = "L19", !.i = 2]

\* the statements at which a thread's step begins: the three calls and the
\* return
CallPoints == {"L24", "L34", "L35", "L41", "done"}

\* run the local statements up to the next call or the return
RECURSIVE RunLocal(_)
RunLocal(s) == IF s.pc \in CallPoints THEN s ELSE RunLocal(LocalStmt(s))

\* the initial state: 1..MaxThreads threads have entered unwrap_loops and
\* g_mutex.SpinCount is 0 (free)
ConcInit ==
    /\ fn = "unwrap_loops"
    /\ pc = Entry(fn)
    /\ w = NarrowWidth
    /\ spin = 0
    /\ fld = 0 /\ n8 = 0 /\ a2 = 0
    /\ hidword = "self"
    /\ i = 0 /\ v2 = 0 /\ result = 0 /\ v9 = 0 /\ v6 = 0 /\ v5 = 0 /\ v10 = 0
    /\ ret = 0
    /\ calls = << >>
    /\ nload = 0
    /\ acc = "none"
    /\ defd = {}
    /\ walked = {}
    /\ \E n \in 1..MaxThreads : thr = [t \in 1..n |-> NewThread]

\* what a step of a thread leaves alone: everything but thr and spin
ConcFrame ==
    UNCHANGED <<fn, pc, w, fld, n8, a2, hidword, i, v2, result, v9, v6, v5, v10,
                ret, calls, nload, acc, defd, walked>>

\* lines 15-23: thread t runs from the entry to its first compare-and-exchange
T_Enter(t) ==
    /\ thr[t].pc = "L15"
    /\ thr' = [thr EXCEPT ![t] = RunLocal(thr[t])]
    /\ UNCHANGED spin
    /\ ConcFrame

\* line 24: if (!_InterlockedCompareExchange(&g_mutex.SpinCount, 1, 0)) goto LABEL_x379;
T_FirstCas(t) ==
    /\ thr[t].pc = "L24"
    /\ spin' = CasStore(spin, 1, 0)
    /\ thr' = [thr EXCEPT ![t] =
                  RunLocal([thr[t] EXCEPT
                               !.pc = AfterFirstCas(spin),
                               !.last = CasCall(1, 0, spin),
                               !.wins = IF spin = 0 THEN @ + 1 ELSE @])]
    /\ ConcFrame

\* line 34: unk_1802CCC58(v2++ >= 0x20);
T_Backoff(t) ==
    /\ thr[t].pc = "L34"
    /\ thr' = [thr EXCEPT ![t] =
                  RunLocal([thr[t] EXCEPT
                               !.pc = "L35",
                               !.last = UnkCall(BackoffArg(thr[t].v2)),
                               !.arg = BackoffArg(thr[t].v2),
                               !.v2 = ToSigned(@ + 1, w)])]
    /\ UNCHANGED spin
    /\ ConcFrame

\* line 35: if (_InterlockedCompareExchange(&g_mutex.SpinCount, 1, 0)) goto LABEL_x2B0;
T_LatchCas(t) ==
    /\ thr[t].pc = "L35"
    /\ spin' = CasStore(spin, 1, 0)
    /\ thr' = [thr EXCEPT ![t] =
                  RunLocal([thr[t] EXCEPT
                               !.pc = AfterLatchCas(spin),
                               !.last = CasCall(1, 0, spin),
                               !.wins = IF spin = 0 THEN @ + 1 ELSE @])]
    /\ ConcFrame

\* line 41: return result;
T_Return(t) ==
    /\ thr[t].pc = "L41"
    /\ thr' = [thr EXCEPT ![t] = [thr[t] EXCEPT !.pc = "done",
                                                !.ret = thr[t].result]]
    /\ UNCHANGED spin
    /\ ConcFrame

\* a step of thread t
ThreadStep(t) ==
    /\ t \in DOMAIN thr
    /\ \/ T_Enter(t) \/ T_FirstCas(t) \/ T_Backoff(t)
       \/ T_LatchCas(t) \/ T_Return(t)

ConcNext == \E t \in 1..MaxThreads : ThreadStep(t)

ConcSpec == ConcInit /\ [][ConcNext]_vars

\* no thread is suspended for ever
ConcFairSpec == ConcSpec /\ \A t \in 1..MaxThreads : WF_vars(ThreadStep(t))


(***************************************************************************)
(* Properties.                                                              *)
(***************************************************************************)
IsPrefix(a, b) == Len(a) <= Len(b) /\ SubSeq(b, 1, Len(a)) = a

IsCas(c) == c.f = "_InterlockedCompareExchange"
IsUnk(c) == c.f = "unk_1802CCC58"

\* the values the compare-and-exchange calls of a trace returned, in order
CasOutcomes(tr) ==
    LET sel == SelectSeq(tr, IsCas)
    IN  [k \in 1..Len(sel) |-> sel[k].r]

\* The pretested loop
\*     v2 = 0; while (CAS(&g_mutex.SpinCount, 1, 0) != 0) unk_1802CCC58(v2++ >= 0x20);
\*     return 2;
\* run on the compare-and-exchange outcomes outs, from its k-th test with
\* counter cnt and the calls tr made so far.  It stops when it returns
\* (done) or when it needs an outcome outs does not hold.
RECURSIVE WhileLoopRun(_, _, _, _, _)
WhileLoopRun(outs, k, cnt, tr, wd) ==
    IF k > Len(outs)
    THEN [tr |-> tr, done |-> FALSE, ret |-> 0]
    ELSE LET cas == [f |-> "_InterlockedCompareExchange",
                     args |-> <<"g_mutex.SpinCount", 1, 0>>, r |-> outs[k]]
             unk == [f |-> "unk_1802CCC58",
                     args |-> <<IF cnt >= 32 THEN 1 ELSE 0>>, r |-> 0]
         IN  IF outs[k] = 0
             THEN [tr |-> Append(tr, cas), done |-> TRUE, ret |-> 2]
             ELSE WhileLoopRun(outs, k + 1, ToSigned(cnt + 1, wd),
                               tr \o <<cas, unk>>, wd)

\* C1: unwrap_loops and the single pretested loop make the same external
\* calls, with the same arguments, in the same order, and return the same
\* value, for every sequence of compare-and-exchange outcomes: at every
\* moment the calls unwrap_loops has made are a prefix of the calls the loop
\* makes on the outcomes seen so far, unwrap_loops is on its way to the call
\* the loop makes next, and it has returned exactly when the loop has.
C1_SameCallsAsWhileLoop ==
    fn = "unwrap_loops" =>
        LET run == WhileLoopRun(CasOutcomes(calls), 1, 0, << >>, w)
        IN  /\ IsPrefix(calls, run.tr)
            /\ Len(run.tr) > Len(calls) =>
                   /\ Len(run.tr) = Len(calls) + 1
                   /\ pc \in {"L28", "L19", "L20", "L31", "L34"}
            /\ (run.tr = calls /\ ~run.done) =>
                   pc \in {"L15", "L19", "L20", "L23", "L24", "L35"}
            /\ (run.tr = calls /\ run.done) =>
                   pc \in {"L38", "L15inc", "L19", "L20", "L31", "L41", "done"}
            /\ pc = "done" => (run.done /\ run.tr = calls /\ ret = run.ret)

\* unwrap_loops has returned after failing the test before the loop and
\* then the test at the latch, with its backoff argument having turned true
C1_Witness ==
    /\ fn = "unwrap_loops"
    /\ pc = "done"
    /\ Len(calls) > 2 * SpinThreshold + 3

\* C2: in unwrap_loops the calls alternate: a compare-and-exchange that
\* fails (returns nonzero) is followed by exactly one unk_1802CCC58 call and
\* then by the next compare-and-exchange; one that succeeds is followed by
\* nothing.  The k-th unk_1802CCC58 call is made with v2 = k - 1, and (as
\* long as the counter has not wrapped) its argument is 0 for k - 1 < 32 and
\* 1 from k - 1 = 32 on.
C2_BackoffAfterEachFailure ==
    fn = "unwrap_loops" =>
        /\ \A j \in 1..Len(calls) :
              IF j % 2 = 1
              THEN /\ IsCas(calls[j])
                   /\ calls[j].args = <<"g_mutex.SpinCount", 1, 0>>
                   /\ calls[j].r = 0 => j = Len(calls)
              ELSE /\ IsUnk(calls[j])
                   /\ calls[j - 1].r # 0
                   /\ LET k == j \div 2
                      IN  k - 1 < 2^(w - 1) =>
                              calls[j].args = <<IF k - 1 >= 32 THEN 1 ELSE 0>>
        /\ (Len(calls) > 0 /\ Len(calls) % 2 = 1 /\ calls[Len(calls)].r # 0) =>
              /\ pc \in {"L28", "L19", "L20", "L31", "L34"}
              /\ v2 = ToSigned(Len(calls) \div 2, w)
        /\ (Len(calls) > 0 /\ Len(calls) % 2 = 0) =>
              /\ pc = "L35"
              /\ v2 = ToSigned(Len(calls) \div 2, w)

\* the backoff argument has been false and then true, and another
\* compare-and-exchange has followed
C2_Witness ==
    /\ fn = "unwrap_loops"
    /\ Len(calls) >= 2 * SpinThreshold + 3
    /\ calls[2 * SpinThreshold].args = <<0>>
    /\ calls[2 * SpinThreshold + 2].args = <<1>>
    /\ IsCas(calls[2 * SpinThreshold + 3])


Max3(a, b, c) ==
    LET m == IF a >= b THEN a ELSE b
    IN  IF m >= c THEN m ELSE c

IsGrow(c) == c.f = "sub_1800D3BF0"

\* C3: when unwrap_loops_2 calls sub_1800D3BF0 for a stored size c and a
\* requested size n8 with 0 <= c < n8 (both, and c + c/2, below 2^(w-1)), the
\* size it passes is max(c + floor(c/2), n8, 8), and the other arguments are
\* 6, 0x4D, 0x3B and a2.  For n8 = 10 and c = 5 the growth is 7, the clamp to
\* the requested size raises it to 10, the clamp to the floor is not taken,
\* and 10 is passed.
C3_GrowthIsMaxOfThree ==
    fn = "unwrap_loops_2" =>
        /\ (/\ Len(calls) = 1
            /\ 0 <= v9 /\ v9 < n8 /\ n8 < 2^(w - 1)
            /\ v9 + (v9 \div 2) < 2^(w - 1)) =>
               calls[1] = [f |-> "sub_1800D3BF0", r |-> 0,
                           args |-> <<6, 77, 59,
                                      Max3(v9 + (v9 \div 2), n8, 8), "a2">>]
        /\ (n8 = 10 /\ "v9" \in defd /\ v9 = 5) =>
               /\ pc = "L70" => v6 = 7
               /\ pc = "L73" => v6 = 10
               /\ pc = "L76" => v6 = 10
               /\ pc # "L74"
               /\ Len(calls) = 1 => calls[1].args[4] = 10

\* requested size 10, current size 5: the call has been made
C3_Witness ==
    /\ fn = "unwrap_loops_2"
    /\ n8 = 10 /\ v9 = 5
    /\ Len(calls) = 1
    /\ {<<"L70", "L71">>, <<"L73", "L76">>} \subseteq walked

\* the two clamps of lines 70-74 applied in the other order: clamp to the
\* floor first, clamp to the requested size second
ReversedSize(v, n, wd) ==
    LET g == Growth(v, wd)
        r == IF BelowFloor(g) THEN FloorSize ELSE g
    IN  IF NotAboveRequested(r, n, wd) THEN ToSigned(n, wd) ELSE r

\* C4 as claimed: some input on the growth path with the requested size
\* below the floor 8 gets a different size from the two orders of the clamps.
C4_OrderMattersBelowFloor ==
    \E c \in (0..MaxFld) \cup LargeVals, n \in 0..(FloorSize - 1) :
        /\ ~AtLeastRequested(ToSigned(c, w), n, w)
        /\ ReversedSize(ToSigned(c, w), n, w) # GrowSize(ToSigned(c, w), n, w)

\* C4, amended: the size unwrap_loops_2 passes is the growth clamped to the
\* requested size and then to the floor; whenever the requested size is
\* below the floor 8 the reverse order of the clamps gives the same size
\* (the larger of the growth and 8).  The two orders differ only where the
\* arithmetic wraps: the requested size is 2^(w-1) or more (negative as an
\* int), or the growth overflows.
C4_OrderIrrelevantBelowFloor ==
    (fn = "unwrap_loops_2" /\ Len(calls) = 1) =>
        LET passed == calls[1].args[4]
        IN  /\ passed = GrowSize(v9, n8, w)
            /\ n8 < FloorSize =>
                   /\ ReversedSize(v9, n8, w) = passed
                   /\ passed = Max3(v9 + (v9 \div 2), FloorSize, FloorSize)
            /\ ReversedSize(v9, n8, w) # passed =>
                   (n8 >= 2^(w - 1) \/ Growth(v9, w) < 0)

\* a call on the growth path with a nonzero requested size below the floor
C4_Witness ==
    /\ fn = "unwrap_loops_2"
    /\ Len(calls) = 1
    /\ n8 < FloorSize /\ v9 > 0


\* C5 as claimed: in the graph of each function every loop header has
\* in-degree at least 2 and is the target of exactly one back edge.
C5_OneBackEdgePerHeader ==
    \A h \in Analysis[fn].headers :
        /\ Analysis[fn].inDegree[h] >= 2
        /\ Cardinality({e \in Analysis[fn].backEdges : e[2] = h}) = 1

\* C5, amended: the statements executed follow the edges of the graph; in the
\* graph of each function there is one loop header, of in-degree at least 2,
\* and it is the target of at least one back edge: of exactly one in
\* unwrap_loops_3 (line 97), of two in unwrap_loops (line 19: from `i = 1`
\* at LABEL_x2B0 and from the for-increment `i = 2`), of three in
\* unwrap_loops_2 (line 55: from `i = 1`, from `i = 2` and from the
\* for-increment `i = 1`).
C5_AtLeastOneBackEdgePerHeader ==
    /\ walked \subseteq Edges(fn)
    /\ Cardinality(Analysis[fn].headers) = 1
    /\ \A h \in Analysis[fn].headers :
          /\ Analysis[fn].inDegree[h] >= 2
          /\ Cardinality({e \in Analysis[fn].backEdges : e[2] = h}) >= 1
    /\ fn = "unwrap_loops_3" =>
          Analysis[fn].backEdges = {<<"L95inc", "L97">>}
    /\ fn = "unwrap_loops" =>
          Analysis[fn].backEdges = {<<"L28", "L19">>, <<"L15inc", "L19">>}
    /\ fn = "unwrap_loops_2" =>
          Analysis[fn].backEdges =
              {<<"L61", "L55">>, <<"L63", "L55">>, <<"L51inc", "L55">>}

\* one execution of unwrap_loops has taken both back edges into line 19
C5_Witness ==
    /\ fn = "unwrap_loops"
    /\ {<<"L28", "L19">>, <<"L15inc", "L19">>} \subseteq walked

\* how i is accessed and what it holds, apart from the kinds of read
DispatchValues ==
    /\ "i" \in defd => i \in {0, 1, 2}
    /\ acc = "write" => "i" \in defd
    /\ pc \in {"L19", "L20", "L31", "L55", "L56", "L66"} => "i" \in defd
    /\ pc \in {"L19", "L20", "L55", "L56"} => i \in {0, 1, 2}
    /\ pc \in {"L31", "L66"} => i \in {1, 2}

\* C7 as claimed: in unwrap_loops and unwrap_loops_2, i is written only
\* with 0, 1 and 2, is read only in branch predicates, holds a known
\* constant set at every read, and is never read before it is written.
C7_ReadOnlyInBranches ==
    fn \in {"unwrap_loops", "unwrap_loops_2"} =>
        /\ DispatchValues
        /\ acc \in {"none", "write", "branch"}

\* C7, amended: as claimed, except that i is also read by the copy
\* `result = i` (lines 19 and 55), at which it holds one of 0, 1, 2; that
\* copy is the only read outside a branch predicate, and the value copied
\* is the value returned.
C7_ReadInBranchesAndCopy ==
    fn \in {"unwrap_loops", "unwrap_loops_2"} =>
        /\ DispatchValues
        /\ acc \in {"none", "write", "branch", "copy"}
        /\ acc = "copy" => (pc \in {"L20", "L56"} /\ result = i)
        /\ "result" \in defd => result \in {0, 1, 2}
        /\ pc = "done" => ret = result

\* `result = i` has just copied the value 2 that unwrap_loops_2's i holds
\* on the growth path
C7_Witness ==
    /\ fn = "unwrap_loops_2"
    /\ pc = "L56"
    /\ acc = "copy"
    /\ i = 2

\* C9: unwrap_loops_2 loads the size at a2 + 0x14 at most once and calls
\* sub_1800D3BF0 at most once; after the call it goes on to return without
\* loading or testing the size and without entering the growth block again;
\* when it has returned it has loaded the size exactly once and has made the
\* call exactly once if the size loaded was below n8 and not at all
\* otherwise.
C9_SingleGrowthCall ==
    fn = "unwrap_loops_2" =>
        /\ nload <= 1
        /\ Len(calls) <= 1
        /\ \A k \in 1..Len(calls) : IsGrow(calls[k])
        /\ Len(calls) = 1 =>
              /\ pc \in {"L51inc", "L55", "L56", "L66", "L79", "done"}
              /\ nload = 1
              /\ ToUnsigned(v9, w) < n8
        /\ pc = "done" =>
              /\ nload = 1
              /\ Len(calls) = (IF ToUnsigned(v9, w) < n8 THEN 1 ELSE 0)

\* unwrap_loops_2 has returned after a call that stored a size of n8 or more
C9_Witness ==
    /\ fn = "unwrap_loops_2"
    /\ pc = "done"
    /\ Len(calls) = 1
    /\ fld >= n8

\* C10: the graph of unwrap_loops is reducible and has one loop region; its
\* header, line 19, dominates every node of the body, LABEL_x2B0 (line 28)
\* and LABEL_x379 (line 38) among them, each of which has two predecessors;
\* an execution follows the edges of the graph, enters the body only at the
\* header and is inside the body only after it has been at the header.
C10_HeaderDominatesBody ==
    fn = "unwrap_loops" =>
        LET an   == Analysis["unwrap_loops"]
            body == an.body["L19"]
        IN  /\ walked \subseteq Edges1
            /\ an.reducible
            /\ an.headers = {"L19"}
            /\ {"L28", "L38"} \subseteq body
            /\ an.inDegree["L28"] = 2
            /\ an.inDegree["L38"] = 2
            /\ body \subseteq an.dominated["L19"]
            /\ \A e \in walked : (e[1] \notin body /\ e[2] \in body) => e[2] = "L19"
            /\ pc \in body \ {"L19"} => \E e \in walked : e[2] = "L19"

\* LABEL_x2B0 has been reached by fallthrough and by goto, LABEL_x379 by
\* fallthrough
C10_Witness ==
    /\ fn = "unwrap_loops"
    /\ {<<"L24", "L28">>, <<"L35", "L28">>, <<"L35", "L38">>} \subseteq walked


\* C11: for all w-bit values of the stored size and of n8, whenever
\* unwrap_loops_2 calls sub_1800D3BF0 the size v6 it passes is at least the
\* requested size n8 (compared as `v6 >= n8` compares, unsigned) and at least
\* the floor 8 (compared as int).
C11_PassedSizeCoversRequest ==
    (fn = "unwrap_loops_2" /\ Len(calls) = 1) =>
        LET passed == calls[1].args[4]
        IN  /\ ToUnsigned(passed, w) >= n8
            /\ passed >= FloorSize


\* the compare-and-exchange calls of a trace that succeeded (returned 0)
Successes(tr) == {k \in 1..Len(tr) : IsCas(tr[k]) /\ tr[k].r = 0}

\* unwrap_loops so far: a compare-and-exchange that succeeded is the last
\* call made; if it was the very first call, unk_1802CCC58 has not been
\* called; on return exactly one compare-and-exchange has succeeded
SuccessIsLastCall ==
    fn = "unwrap_loops" =>
        /\ Successes(calls) \subseteq {Len(calls)}
        /\ (Len(calls) > 0 /\ calls[1].r = 0) => NumCalls("unk_1802CCC58") = 0
        /\ pc = "done" => Successes(calls) = {Len(calls)}

\* C13: once a compare-and-exchange of an invocation of unwrap_loops has
\* found g_mutex.SpinCount equal to 0 the invocation terminates; at return
\* exactly one of its compare-and-exchange calls has succeeded and that call
\* was its last external call; when the very first compare-and-exchange
\* succeeds unk_1802CCC58 is never called.
C13_SuccessEndsInvocation ==
    /\ [](SuccessIsLastCall)
    /\ (fn = "unwrap_loops" /\ Successes(calls) # {}) ~> (pc = "done")

\* unwrap_loops has returned after one failed compare-and-exchange, one
\* backoff call and the compare-and-exchange that succeeded
C13_Witness ==
    /\ fn = "unwrap_loops"
    /\ pc = "done"
    /\ Len(calls) = 3
    /\ Successes(calls) = {3}

\* C14: unwrap_loops returns 2 whenever it returns, whatever the
\* compare-and-exchange calls returned; unwrap_loops_2 always returns, and
\* returns 1, whatever n8 and the stored size are and whether or not it
\* called sub_1800D3BF0.
C14_ResultIsConstant ==
    /\ []((fn = "unwrap_loops" /\ pc = "done") => ret = 2)
    /\ []((fn = "unwrap_loops_2" /\ pc = "done") => ret = 1)
    /\ (fn = "unwrap_loops_2") ~> (pc = "done" /\ ret = 1)

\* unwrap_loops_2 has returned 1 after the growth call
C14_Witness ==
    /\ fn = "unwrap_loops_2"
    /\ pc = "done"
    /\ ret = 1
    /\ Len(calls) = 1


\* the threads whose compare-and-exchange has succeeded, and those that have
\* returned
Winners == {t \in DOMAIN thr : thr[t].wins > 0}
Returned == {t \in DOMAIN thr : thr[t].pc = "done"}

IsFailedCas(c) == IsCas(c) /\ c.r # 0

\* threads on one g_mutex.SpinCount that is never reset: at most one
\* compare-and-exchange has succeeded, the lock is taken exactly when one
\* has, only the thread that succeeded gets to the return, and each other
\* thread is about to call unk_1802CCC58 when its last call was a failed
\* compare-and-exchange and about to compare-and-exchange when its last call
\* was unk_1802CCC58
OneWinner ==
    /\ Cardinality(Winners) <= 1
    /\ \A t \in DOMAIN thr : thr[t].wins <= 1
    /\ (spin # 0) = (Winners # {})
    /\ Cardinality(Returned) <= 1
    /\ \A t \in DOMAIN thr :
          /\ thr[t].pc \in {"L15", "L24", "L34", "L35", "L41", "done"}
          /\ thr[t].pc \in {"L41", "done"} =>
                (t \in Winners /\ thr[t].last = CasCall(1, 0, 0))
          /\ thr[t].pc \in {"L15", "L24"} => thr[t].last = NoCall
          /\ thr[t].pc = "L34" => (IsFailedCas(thr[t].last) /\ t \notin Winners)
          /\ thr[t].pc = "L35" => (IsUnk(thr[t].last) /\ t \notin Winners)
          /\ thr[t].pc = "done" => thr[t].ret = 2

\* C12: with 1..MaxThreads threads in unwrap_loops on one g_mutex.SpinCount
\* that starts at 0 and is changed only by their compare-and-exchange calls,
\* exactly one thread's compare-and-exchange ever succeeds (at most one at
\* any time, and one eventually), at most one thread ever returns, and every
\* other thread calls unk_1802CCC58 and the compare-and-exchange (which
\* fails) in turn, again and again for ever.
C12_OneWinnerOthersSpin ==
    /\ [](OneWinner)
    /\ <>(Cardinality(Winners) = 1)
    /\ \A t \in 1..MaxThreads :
          /\ []<>(t \notin DOMAIN thr \/ t \in Winners \/ IsUnk(thr[t].last))
          /\ []<>(t \notin DOMAIN thr \/ t \in Winners \/ IsFailedCas(thr[t].last))

\* one thread has taken the lock and returned while another, having failed
\* both kinds of compare-and-exchange, is being told to back off harder
C12_Witness ==
    /\ Cardinality(Returned) = 1
    /\ \E t \in DOMAIN thr :
          /\ t \notin Winners
          /\ thr[t].pc = "L34"
          /\ thr[t].arg = 1

\* C15: within one invocation of unwrap_loops, once a call of unk_1802CCC58
\* has received true every later call of that invocation receives true too,
\* however many compare-and-exchange calls fail, v2 being a w-bit signed
\* integer that wraps on increment.
C15_BackoffArgMonotone ==
    [][\A t \in DOMAIN thr : thr[t].arg = 1 => thr'[t].arg = 1]_vars

=============================================================================
